---- MODULE Spec2Model ----
(***************************************************************************)
(* bevy_keyboard_shortcuts (src/src/lib.rs): the modifier policy, the      *)
(* single shortcut, the shortcut group, its builder operations and its     *)
(* rendering, over a keyboard snapshot (bevy's ButtonInput<KeyCode>).      *)
(***************************************************************************)
EXTENDS Naturals, Sequences, FiniteSets, TLC

VARIABLES
    shortcuts,          \* the Shortcuts value the program holds
    keyboard,           \* the host's ButtonInput<KeyCode>
    debug_assertions,   \* cfg(debug_assertions): a development build
    panicked,           \* a debug_assert! has failed
    called,             \* the operation called last
    receiver,           \* the Shortcuts value the last builder call took
    result,             \* what the last Shortcuts::pressed returned
    label,              \* what the last to_string returned
    slice,              \* the key slice the constructor was given
    age                 \* per key: ends of tick since it last went down

vars == <<shortcuts, keyboard, debug_assertions, panicked, called, receiver,
          result, label, slice, age>>

\* bounds of the model
MaxAlts == 2
MaxTicks == 2

(***************************************************************************)
(* Key codes.  KeyCode is bevy's enum; the model keeps the eight modifier  *)
(* keys Modifiers::pressed reads and three primary keys.                   *)
(***************************************************************************)
ControlKeys == {"ControlLeft", "ControlRight"}
AltKeys == {"AltLeft", "AltRight"}
ShiftKeys == {"ShiftLeft", "ShiftRight"}
SuperKeys == {"SuperLeft", "SuperRight"}
ModifierKeys == ControlKeys \cup AltKeys \cup ShiftKeys \cup SuperKeys
PrimaryKeys == {"KeyA", "KeyS", "ArrowLeft"}
KeyCode == PrimaryKeys \cup ModifierKeys

(***************************************************************************)
(* Option<ModifierType>: None, Some(RequirePressed), Some(RequireNotPressed)*)
(***************************************************************************)
None == "None"
RequirePressed == "RequirePressed"
RequireNotPressed == "RequireNotPressed"
ModifierType == {RequirePressed, RequireNotPressed}
OptModifierType == {None} \cup ModifierType

Channels == {"control", "alt", "shift", "super_key"}

\* struct Modifiers and Modifiers::default()
Modifiers == [Channels -> OptModifierType]
ModifiersDefault == [c \in Channels |-> None]

\* struct Shortcut { key, modifiers }
MkShortcut(k, m) == [key |-> k, modifiers |-> m]

\* struct Shortcuts { shortcuts, repeats } and its derived Default
MkShortcuts(ss, r) == [shortcuts |-> ss, repeats |-> r]
ShortcutsDefault == MkShortcuts(<<>>, FALSE)

(***************************************************************************)
(* The keyboard snapshot: the set of keys down and the set of keys that    *)
(* went down this tick (ButtonInput<KeyCode>, owned by the host).          *)
(***************************************************************************)
MkInput(p, j) == [pressed |-> p, just_pressed |-> j]
InputDefault == MkInput({}, {})
InputPressed(keys, k) == k \in keys.pressed
InputJustPressed(keys, k) == k \in keys.just_pressed

\* ButtonInput::press: just_pressed gains the key only when it was up
InputPress(keys, k) ==
    IF k \in keys.pressed
    THEN keys
    ELSE MkInput(keys.pressed \cup {k}, keys.just_pressed \cup {k})
\* ButtonInput::release
InputRelease(keys, k) == MkInput(keys.pressed \ {k}, keys.just_pressed)
\* ButtonInput::clear: the end of a tick
InputClear(keys) == MkInput(keys.pressed, {})

(***************************************************************************)
(* Modifier policy                                                         *)
(***************************************************************************)
\* ModifierType::matches
ModifierTypeMatches(t, pressed) ==
    IF t = RequirePressed THEN pressed ELSE ~pressed

\* Modifiers::matches_modifier
MatchesModifierNoneForbids(requirement, pressed) ==
    IF requirement = None THEN ~pressed ELSE ModifierTypeMatches(requirement, pressed)
MatchesModifierForbidIgnored(requirement, pressed) ==
    requirement = RequirePressed => pressed
MatchesModifier(requirement, pressed) ==
    IF requirement = None THEN TRUE ELSE ModifierTypeMatches(requirement, pressed)

\* the four locals of Modifiers::pressed
ControlPressedLeftOnly(keys) == InputPressed(keys, "ControlLeft")
ControlPressed(keys) ==
    InputPressed(keys, "ControlLeft") \/ InputPressed(keys, "ControlRight")
AltPressed(keys) ==
    InputPressed(keys, "AltLeft") \/ InputPressed(keys, "AltRight")
ShiftPressed(keys) ==
    InputPressed(keys, "ShiftLeft") \/ InputPressed(keys, "ShiftRight")
SuperPressed(keys) ==
    InputPressed(keys, "SuperLeft") \/ InputPressed(keys, "SuperRight")

\* Modifiers::pressed
ModifiersPressedNoShift(m, keys) ==
    /\ MatchesModifier(m.control, ControlPressed(keys))
    /\ MatchesModifier(m.alt, AltPressed(keys))
    /\ MatchesModifier(m.super_key, SuperPressed(keys))
ModifiersPressed(m, keys) ==
    /\ MatchesModifier(m.control, ControlPressed(keys))
    /\ MatchesModifier(m.alt, AltPressed(keys))
    /\ MatchesModifier(m.shift, ShiftPressed(keys))
    /\ MatchesModifier(m.super_key, SuperPressed(keys))

\* Modifiers::none
ModifiersNone(m) ==
    /\ m.control = None
    /\ m.alt = None
    /\ m.shift = None
    /\ m.super_key = None

(***************************************************************************)
(* Single shortcut                                                         *)
(***************************************************************************)
\* Shortcut::pressed
ShortcutPressedEdge(s, keys) ==
    InputJustPressed(keys, s.key) /\ ModifiersPressed(s.modifiers, keys)
ShortcutPressed(s, keys) ==
    InputPressed(keys, s.key) /\ ModifiersPressed(s.modifiers, keys)

\* Shortcut::just_pressed
ShortcutJustPressedLevel(s, keys) ==
    InputPressed(keys, s.key) /\ ModifiersPressed(s.modifiers, keys)
ShortcutJustPressedChord(s, keys) ==
    /\ InputPressed(keys, s.key)
    /\ ModifiersPressed(s.modifiers, keys)
    /\ \/ InputJustPressed(keys, s.key)
       \/ \E k \in ModifierKeys : InputJustPressed(keys, k)
ShortcutJustPressed(s, keys) ==
    InputJustPressed(keys, s.key) /\ ModifiersPressed(s.modifiers, keys)

(***************************************************************************)
(* Shortcut group: Shortcuts::pressed.  iter().any() walks the list from   *)
(* the front and stops at the first match.                                 *)
(***************************************************************************)
RECURSIVE AnyPressed(_, _)
AnyPressed(ss, keys) ==
    IF ss = <<>> THEN FALSE
    ELSE IF ShortcutPressed(Head(ss), keys) THEN TRUE
    ELSE AnyPressed(Tail(ss), keys)

RECURSIVE AnyJustPressed(_, _)
AnyJustPressed(ss, keys) ==
    IF ss = <<>> THEN FALSE
    ELSE IF ShortcutJustPressed(Head(ss), keys) THEN TRUE
    ELSE AnyJustPressed(Tail(ss), keys)

ShortcutsPressedFirstOnly(g, keys) ==
    /\ g.shortcuts # <<>>
    /\ IF g.repeats
       THEN ShortcutPressed(Head(g.shortcuts), keys)
       ELSE ShortcutJustPressed(Head(g.shortcuts), keys)
RECURSIVE AllPressed(_, _, _)
AllPressed(ss, r, keys) ==
    IF ss = <<>> THEN TRUE
    ELSE /\ IF r THEN ShortcutPressed(Head(ss), keys)
                 ELSE ShortcutJustPressed(Head(ss), keys)
         /\ AllPressed(Tail(ss), r, keys)
ShortcutsPressedAll(g, keys) == AllPressed(g.shortcuts, g.repeats, keys)
ShortcutsPressedSharedPolicy(g, keys) ==
    \E i \in 1..Len(g.shortcuts) :
        /\ IF g.repeats THEN InputPressed(keys, g.shortcuts[i].key)
                        ELSE InputJustPressed(keys, g.shortcuts[i].key)
        /\ ModifiersPressed(Head(g.shortcuts).modifiers, keys)
ShortcutsPressed(g, keys) ==
    IF g.repeats
    THEN AnyPressed(g.shortcuts, keys)
    ELSE AnyJustPressed(g.shortcuts, keys)

(***************************************************************************)
(* Constructors and builder operations                                     *)
(***************************************************************************)
\* Shortcuts::single_press
single_pressReversed(ks) ==
    MkShortcuts([i \in 1..Len(ks) |->
                    MkShortcut(ks[Len(ks) + 1 - i], ModifiersDefault)], FALSE)
single_press(ks) ==
    MkShortcuts([i \in 1..Len(ks) |-> MkShortcut(ks[i], ModifiersDefault)], FALSE)

\* Shortcuts::repeating
repeating(ks) ==
    MkShortcuts([i \in 1..Len(ks) |-> MkShortcut(ks[i], ModifiersDefault)], TRUE)

\* the condition of the builders' debug_assert!, negated
AlreadySet(self, c) ==
    self.shortcuts # <<>> /\ Head(self.shortcuts).modifiers[c] # None

\* debug_assert!(cond, ..) fails: only a build with debug assertions checks
DebugAssertFailsNever(cond) == FALSE
DebugAssertFails(cond) == debug_assertions /\ ~cond

\* the body the eight builders share: first_mut() and the assignment
SetModifierAll(self, c, t) ==
    [self EXCEPT !.shortcuts =
        [i \in 1..Len(self.shortcuts) |->
            [self.shortcuts[i] EXCEPT !.modifiers[c] = t]]]
SetModifierKeepFirst(self, c, t) ==
    IF self.shortcuts = <<>> \/ Head(self.shortcuts).modifiers[c] # None
    THEN self
    ELSE [self EXCEPT !.shortcuts[1].modifiers[c] = t]
SetModifier(self, c, t) ==
    IF self.shortcuts = <<>>
    THEN self
    ELSE [self EXCEPT !.shortcuts[1].modifiers[c] = t]

with_ctrl(self) == SetModifier(self, "control", RequirePressed)
with_alt(self) == SetModifier(self, "alt", RequirePressed)
with_shift(self) == SetModifier(self, "shift", RequirePressed)
with_super(self) == SetModifier(self, "super_key", RequirePressed)
without_ctrl(self) == SetModifier(self, "control", RequireNotPressed)
without_alt(self) == SetModifier(self, "alt", RequireNotPressed)
without_shift(self) == SetModifier(self, "shift", RequireNotPressed)
without_super(self) == SetModifier(self, "super_key", RequireNotPressed)

(***************************************************************************)
(* Rendering                                                               *)
(***************************************************************************)
\* [&str]::join
RECURSIVE Join(_, _)
Join(parts, sep) ==
    IF parts = <<>> THEN ""
    ELSE IF Len(parts) = 1 THEN parts[1]
    ELSE parts[1] \o sep \o Join(Tail(parts), sep)

\* impl Display for Modifiers
ModifiersToStringShiftFirst(m) ==
    LET parts ==
            (IF m.shift = RequirePressed THEN <<"Shift">> ELSE <<>>)
         \o (IF m.control = RequirePressed THEN <<"Ctrl">> ELSE <<>>)
         \o (IF m.alt = RequirePressed THEN <<"Alt">> ELSE <<>>)
         \o (IF m.super_key = RequirePressed THEN <<"Super">> ELSE <<>>)
    IN  Join(parts, " + ")
ModifiersToString(m) ==
    LET parts ==
            (IF m.control = RequirePressed THEN <<"Ctrl">> ELSE <<>>)
         \o (IF m.alt = RequirePressed THEN <<"Alt">> ELSE <<>>)
         \o (IF m.shift = RequirePressed THEN <<"Shift">> ELSE <<>>)
         \o (IF m.super_key = RequirePressed THEN <<"Super">> ELSE <<>>)
    IN  Join(parts, " + ")

\* KEY_DISPLAY_MAP: the inserts of the initializer, then the four loops.
\* The grave accent and the erase-to-the-left and erase-to-the-right signs
\* are written by their code points, U+0060, U+232B and U+2326.
Letters ==
    {"A", "B", "C", "D", "E", "F", "G", "H", "I", "J", "K", "L", "M",
     "N", "O", "P", "Q", "R", "S", "T", "U", "V", "W", "X", "Y", "Z"}
KEY_DISPLAY_ENTRIES ==
    {
        <<"Backquote", "U+0060">>, <<"Backslash", "\\">>, <<"BracketLeft", "[">>,
        <<"BracketRight", "]">>, <<"Comma", ",">>, <<"Equal", "=">>,
        <<"Minus", "-">>, <<"Period", ".">>, <<"Quote", "'">>,
        <<"Semicolon", ";">>, <<"Slash", "/">>, <<"Backspace", "U+232B">>,
        <<"Delete", "U+2326">>, <<"Enter", "↵">>, <<"Escape", "Esc">>,
        <<"Tab", "⇥">>, <<"Space", "Space">>, <<"ArrowUp", "↑">>,
        <<"ArrowDown", "↓">>, <<"ArrowLeft", "←">>, <<"ArrowRight", "→">>,
        <<"Home", "Home">>, <<"End", "End">>, <<"PageUp", "PgUp">>,
        <<"PageDown", "PgDn">>, <<"CapsLock", "CapsLock">>,
        <<"NumLock", "NumLock">>, <<"ScrollLock", "ScrollLock">>,
        <<"PrintScreen", "PrtScr">>, <<"Pause", "Pause">>,
        <<"ContextMenu", "Menu">>, <<"Insert", "Insert">>,
        <<"NumpadAdd", "Num +">>, <<"NumpadSubtract", "Num -">>,
        <<"NumpadMultiply", "Num *">>, <<"NumpadDivide", "Num /">>,
        <<"NumpadDecimal", "Num .">>, <<"NumpadEqual", "Num =">>,
        <<"NumpadEnter", "Num Enter">>, <<"NumpadComma", "Num ,">>,
        <<"NumpadBackspace", "Num U+232B">>, <<"NumpadClear", "Num Clear">>,
        <<"NumpadClearEntry", "Num CE">>, <<"NumpadHash", "Num #">>,
        <<"NumpadParenLeft", "Num (">>, <<"NumpadParenRight", "Num )">>,
        <<"NumpadStar", "Num *">>, <<"NumpadMemoryAdd", "Num M+">>,
        <<"NumpadMemoryClear", "Num MC">>,
        <<"NumpadMemoryRecall", "Num MR">>,
        <<"NumpadMemoryStore", "Num MS">>,
        <<"NumpadMemorySubtract", "Num M-">>,
        <<"MediaPlayPause", "Play/Pause">>, <<"MediaStop", "Stop">>,
        <<"MediaTrackNext", "Next Track">>,
        <<"MediaTrackPrevious", "Prev Track">>,
        <<"MediaSelect", "Media Select">>, <<"AudioVolumeUp", "Vol+">>,
        <<"AudioVolumeDown", "Vol-">>, <<"AudioVolumeMute", "Mute">>,
        <<"BrowserBack", "Browser Back">>,
        <<"BrowserForward", "Browser Forward">>,
        <<"BrowserRefresh", "Refresh">>, <<"BrowserStop", "Browser Stop">>,
        <<"BrowserSearch", "Browser Search">>,
        <<"BrowserFavorites", "Favorites">>,
        <<"BrowserHome", "Browser Home">>, <<"LaunchMail", "Mail">>,
        <<"LaunchApp1", "App1">>, <<"LaunchApp2", "App2">>,
        <<"Copy", "Copy">>, <<"Cut", "Cut">>, <<"Paste", "Paste">>,
        <<"Undo", "Undo">>, <<"Find", "Find">>, <<"Open", "Open">>,
        <<"Select", "Select">>, <<"ControlLeft", "Ctrl">>,
        <<"ControlRight", "Ctrl">>, <<"AltLeft", "Alt">>,
        <<"AltRight", "Alt">>, <<"ShiftLeft", "Shift">>,
        <<"ShiftRight", "Shift">>, <<"SuperLeft", "Super">>,
        <<"SuperRight", "Super">>, <<"IntlBackslash", "Intl \\">>,
        <<"IntlRo", "Ro">>, <<"IntlYen", "¥">>, <<"Lang1", "Lang1">>,
        <<"Lang2", "Lang2">>, <<"Lang3", "Lang3">>, <<"Lang4", "Lang4">>,
        <<"Lang5", "Lang5">>, <<"KanaMode", "Kana">>,
        <<"Hiragana", "Hiragana">>, <<"Katakana", "Katakana">>,
        <<"Convert", "Convert">>, <<"NonConvert", "NonConvert">>,
        <<"Again", "Again">>, <<"Resume", "Resume">>,
        <<"Suspend", "Suspend">>, <<"Abort", "Abort">>, <<"Props", "Props">>,
        <<"Help", "Help">>, <<"Power", "Power">>, <<"Sleep", "Sleep">>,
        <<"WakeUp", "WakeUp">>, <<"Eject", "⏏">>, <<"Fn", "Fn">>,
        <<"FnLock", "FnLock">>, <<"Turbo", "Turbo">>, <<"Meta", "Meta">>,
        <<"Hyper", "Hyper">>
    }
    \cup {<<"Key" \o l, l>> : l \in Letters}
    \cup {<<"Digit" \o ToString(d), ToString(d)>> : d \in 0..9}
    \cup {<<"Numpad" \o ToString(d), "Num " \o ToString(d)>> : d \in 0..9}
    \cup {<<"F" \o ToString(i), "F" \o ToString(i)>> : i \in 1..35}
KEY_DISPLAY_MAP ==
    [k \in {e[1] : e \in KEY_DISPLAY_ENTRIES} |->
        (CHOOSE e \in KEY_DISPLAY_ENTRIES : e[1] = k)[2]]

\* Shortcut::key_str: format!("{:?}", key) is the variant's name
key_strTableOnly(s) ==
    IF s.key \in DOMAIN KEY_DISPLAY_MAP THEN KEY_DISPLAY_MAP[s.key] ELSE ""
key_str(s) ==
    IF s.key \in DOMAIN KEY_DISPLAY_MAP THEN KEY_DISPLAY_MAP[s.key] ELSE s.key

\* impl Display for Shortcut
ShortcutToString(s) ==
    (IF ~ModifiersNone(s.modifiers)
     THEN ModifiersToString(s.modifiers) \o " + "
     ELSE "") \o key_str(s)

\* impl Display for Shortcuts
RECURSIVE ShortcutsToStringTrailing(_)
ShortcutsToStringTrailing(g) ==
    IF g.shortcuts = <<>> THEN ""
    ELSE ShortcutToString(Head(g.shortcuts)) \o ", "
         \o ShortcutsToStringTrailing([g EXCEPT !.shortcuts = Tail(@)])
ShortcutsToString(g) ==
    Join([i \in 1..Len(g.shortcuts) |-> ShortcutToString(g.shortcuts[i])], ", ")

(***************************************************************************)
(* Inputs of the operations                                                *)
(***************************************************************************)
\* sequences of at most MaxAlts elements of S
Lists(S) == UNION {[1..n -> S] : n \in 0..MaxAlts}

\* key slices given to single_press and repeating
SliceKeys == {"KeyS", "ArrowLeft"}

\* Shortcuts values that arrive through serde (the fields are public)
SerdeModifiers ==
    { ModifiersDefault,
      [ModifiersDefault EXCEPT !.control = RequirePressed,
                               !.shift = RequireNotPressed],
      [ModifiersDefault EXCEPT !.control = RequireNotPressed] }
SerdeShortcut == {MkShortcut(k, m) : k \in SliceKeys, m \in SerdeModifiers}
SerdeShortcuts == {MkShortcuts(ss, r) : ss \in Lists(SerdeShortcut), r \in BOOLEAN}

\* Debug names of KeyCode values: the named variants, all of them keys of
\* the table, and a KeyCode::Unidentified(NativeKeyCode::Unidentified)
UnidentifiedKeys == {"Unidentified(Unidentified)"}
KeyNames == DOMAIN KEY_DISPLAY_MAP \cup UnidentifiedKeys

\* keys the host presses and releases over the ticks
TickKeys == {"KeyA", "ArrowLeft", "ControlLeft"}

\* the groups followed over the ticks
TickShortcuts ==
    { single_press(<<"KeyA">>),
      single_press(<<"ControlLeft">>),
      single_press(<<"KeyA", "ArrowLeft">>),
      with_ctrl(single_press(<<"KeyA">>)),
      repeating(<<"KeyA">>),
      repeating(<<"KeyA", "ArrowLeft">>),
      with_ctrl(repeating(<<"KeyA", "ArrowLeft">>)) }

\* snapshots a group is matched against
AllDown == MkInput(KeyCode, KeyCode)
MatchSnapshots ==
    {MkInput(p, j) :
        p \in SUBSET {"KeyS", "ArrowLeft", "ControlLeft", "ControlRight", "ShiftLeft"},
        j \in SUBSET {"KeyS", "ArrowLeft"}}
    \cup {AllDown}

\* snapshots with every state of the eight modifier keys
ModifierSnapshots ==
    {MkInput(mods \cup p, j) :
        mods \in SUBSET ModifierKeys, p \in SUBSET SliceKeys, j \in SUBSET SliceKeys}

\* groups whose one key is a modifier key: as constructed, and with the
\* key's own channel forbidden by the without_ builder of that channel
ForbidOwnChannel(g) ==
    CASE Head(g.shortcuts).key \in ControlKeys -> without_ctrl(g)
      [] Head(g.shortcuts).key \in AltKeys -> without_alt(g)
      [] Head(g.shortcuts).key \in ShiftKeys -> without_shift(g)
      [] Head(g.shortcuts).key \in SuperKeys -> without_super(g)
ModifierKeyShortcuts ==
    LET built == {single_press(<<k>>) : k \in ModifierKeys}
                 \cup {repeating(<<k>>) : k \in ModifierKeys}
    IN  built \cup {ForbidOwnChannel(g) : g \in built}

\* snapshots of the modifier keys, at most one of them just pressed
ModifierKeySnapshots ==
    {MkInput(p, j) : p \in SUBSET ModifierKeys,
                     j \in {{}} \cup {{k} : k \in ModifierKeys}}

Min(a, b) == IF a < b THEN a ELSE b

(***************************************************************************)
(* Operations.  A Shortcuts value is constructed once (called = "new"      *)
(* before that), then configured by builder calls, then read.              *)
(***************************************************************************)
NoReturn == result' = FALSE /\ label' = ""

\* Shortcuts::default()
Default ==
    /\ called = "new"
    /\ shortcuts' = ShortcutsDefault
    /\ called' = "default"
    /\ receiver' = ShortcutsDefault
    /\ NoReturn
    /\ UNCHANGED <<keyboard, debug_assertions, panicked, age, slice>>

SinglePress(ks) ==
    /\ called = "new"
    /\ shortcuts' = single_press(ks)
    /\ slice' = ks
    /\ called' = "single_press"
    /\ receiver' = ShortcutsDefault
    /\ NoReturn
    /\ UNCHANGED <<keyboard, debug_assertions, panicked, age>>

Repeating(ks) ==
    /\ called = "new"
    /\ shortcuts' = repeating(ks)
    /\ slice' = ks
    /\ called' = "repeating"
    /\ receiver' = ShortcutsDefault
    /\ NoReturn
    /\ UNCHANGED <<keyboard, debug_assertions, panicked, age>>

\* #[derive(Deserialize)] on Shortcuts
Deserialize(g) ==
    /\ called = "new"
    /\ shortcuts' = g
    /\ called' = "deserialize"
    /\ receiver' = ShortcutsDefault
    /\ NoReturn
    /\ UNCHANGED <<keyboard, debug_assertions, panicked, age, slice>>

\* a call of one of the eight builders: the debug_assert!, then the body
Builder(name, c, built) ==
    /\ ~panicked
    /\ called' = name
    /\ receiver' = shortcuts
    /\ IF DebugAssertFails(~AlreadySet(shortcuts, c))
       THEN panicked' = TRUE /\ shortcuts' = shortcuts
       ELSE panicked' = FALSE /\ shortcuts' = built
    /\ NoReturn
    /\ UNCHANGED <<keyboard, debug_assertions, age, slice>>

WithCtrl == Builder("with_ctrl", "control", with_ctrl(shortcuts))
WithAlt == Builder("with_alt", "alt", with_alt(shortcuts))
WithShift == Builder("with_shift", "shift", with_shift(shortcuts))
WithSuper == Builder("with_super", "super_key", with_super(shortcuts))
WithoutCtrl == Builder("without_ctrl", "control", without_ctrl(shortcuts))
WithoutAlt == Builder("without_alt", "alt", without_alt(shortcuts))
WithoutShift == Builder("without_shift", "shift", without_shift(shortcuts))
WithoutSuper == Builder("without_super", "super_key", without_super(shortcuts))

\* shortcuts.pressed(&keyboard)
PressedConsumes ==
    /\ ~panicked
    /\ called' = "pressed"
    /\ result' = ShortcutsPressed(shortcuts, keyboard)
    /\ keyboard' = InputClear(keyboard)
    /\ label' = ""
    /\ receiver' = ShortcutsDefault
    /\ UNCHANGED <<shortcuts, debug_assertions, panicked, age, slice>>
Pressed ==
    /\ ~panicked
    /\ called' = "pressed"
    /\ result' = ShortcutsPressed(shortcuts, keyboard)
    /\ label' = ""
    /\ receiver' = ShortcutsDefault
    /\ UNCHANGED <<shortcuts, keyboard, debug_assertions, panicked, age, slice>>

\* shortcuts.to_string()
to_string ==
    /\ ~panicked
    /\ called' = "to_string"
    /\ label' = ShortcutsToString(shortcuts)
    /\ result' = FALSE
    /\ receiver' = ShortcutsDefault
    /\ UNCHANGED <<shortcuts, keyboard, debug_assertions, panicked, age, slice>>

\* Modifiers::pressed of the first alternative's policy
FirstModifiersPressed ==
    /\ ~panicked
    /\ called' = "Modifiers::pressed"
    /\ result' = ModifiersPressed(Head(shortcuts.shortcuts).modifiers, keyboard)
    /\ label' = ""
    /\ receiver' = ShortcutsDefault
    /\ UNCHANGED <<shortcuts, keyboard, debug_assertions, panicked, age, slice>>

\* the host: keyboard.press(k)
Press(k) ==
    /\ keyboard' = InputPress(keyboard, k)
    /\ age' = [age EXCEPT ![k] = IF k \in keyboard.pressed THEN @ ELSE 0]
    /\ called' = "press"
    /\ receiver' = ShortcutsDefault
    /\ NoReturn
    /\ UNCHANGED <<shortcuts, debug_assertions, panicked, slice>>

\* the host: keyboard.release(k)
Release(k) ==
    /\ keyboard' = InputRelease(keyboard, k)
    /\ called' = "release"
    /\ receiver' = ShortcutsDefault
    /\ NoReturn
    /\ UNCHANGED <<shortcuts, debug_assertions, panicked, age, slice>>

\* the host: keyboard.clear() at the end of the tick
Clear ==
    /\ keyboard' = InputClear(keyboard)
    /\ age' = [k \in KeyCode |-> Min(age[k] + 1, MaxTicks)]
    /\ called' = "clear"
    /\ receiver' = ShortcutsDefault
    /\ NoReturn
    /\ UNCHANGED <<shortcuts, debug_assertions, panicked, slice>>

(***************************************************************************)
(* Specifications                                                          *)
(***************************************************************************)
InitCommon ==
    /\ panicked = FALSE
    /\ called = "new"
    /\ receiver = ShortcutsDefault
    /\ result = FALSE
    /\ label = ""
    /\ slice = <<>>
    /\ age = [k \in KeyCode |-> MaxTicks]

\* a group in use over the ticks of the host
Init ==
    /\ InitCommon
    /\ debug_assertions = TRUE
    /\ shortcuts \in TickShortcuts
    /\ keyboard = InputDefault

Next ==
    \/ \E k \in TickKeys : Press(k)
    \/ \E k \in TickKeys : Release(k)
    \/ Clear
    \/ Pressed

Spec == Init /\ [][Next]_vars

\* configuration: constructors, builders, rendering
InitBuild ==
    /\ InitCommon
    /\ debug_assertions \in BOOLEAN
    /\ shortcuts = ShortcutsDefault
    /\ keyboard = InputDefault

NextBuild ==
    \/ Default
    \/ \E ks \in Lists(SliceKeys) : SinglePress(ks)
    \/ \E ks \in Lists(SliceKeys) : Repeating(ks)
    \/ \E g \in SerdeShortcuts : Deserialize(g)
    \/ WithCtrl
    \/ WithAlt
    \/ WithShift
    \/ WithSuper
    \/ WithoutCtrl
    \/ WithoutAlt
    \/ WithoutShift
    \/ WithoutSuper
    \/ to_string

SpecBuild == InitBuild /\ [][NextBuild]_vars

\* matching a group against one snapshot
InitMatch ==
    /\ InitCommon
    /\ debug_assertions = TRUE
    /\ shortcuts = ShortcutsDefault
    /\ keyboard \in MatchSnapshots

NextMatch ==
    \/ Default
    \/ \E ks \in Lists(SliceKeys) : SinglePress(ks)
    \/ \E ks \in Lists(SliceKeys) : Repeating(ks)
    \/ \E g \in SerdeShortcuts : Deserialize(g)
    \/ Pressed

SpecMatch == InitMatch /\ [][NextMatch]_vars

\* one modifier policy against one state of the eight modifier keys
InitModifiers ==
    /\ InitCommon
    /\ debug_assertions = TRUE
    /\ \E m \in Modifiers : shortcuts = MkShortcuts(<<MkShortcut("KeyS", m)>>, TRUE)
    /\ \E p \in SUBSET ModifierKeys : keyboard = MkInput(p, {})

NextModifiers == FirstModifiersPressed

SpecModifiers == InitModifiers /\ [][NextModifiers]_vars

\* the label of one key: a one-key group is constructed, then rendered
InitLabel ==
    /\ InitCommon
    /\ debug_assertions = TRUE
    /\ shortcuts = ShortcutsDefault
    /\ keyboard = InputDefault

NextLabel ==
    \/ \E k \in KeyNames : SinglePress(<<k>>)
    \/ to_string

SpecLabel == InitLabel /\ [][NextLabel]_vars

\* a group as the constructors leave it, against the modifier keys
InitIgnore ==
    /\ InitCommon
    /\ debug_assertions = TRUE
    /\ shortcuts = ShortcutsDefault
    /\ keyboard \in ModifierSnapshots

NextIgnore ==
    \/ \E ks \in Lists(SliceKeys) : SinglePress(ks)
    \/ \E ks \in Lists(SliceKeys) : Repeating(ks)
    \/ Pressed

SpecIgnore == InitIgnore /\ [][NextIgnore]_vars

\* a constructed group, configured by builder calls, against one snapshot
InitAlt ==
    /\ InitCommon
    /\ debug_assertions = TRUE
    /\ shortcuts = ShortcutsDefault
    /\ keyboard \in MatchSnapshots

NextAlt ==
    \/ \E ks \in Lists(SliceKeys) : SinglePress(ks)
    \/ \E ks \in Lists(SliceKeys) : Repeating(ks)
    \/ WithCtrl
    \/ WithoutCtrl
    \/ WithShift
    \/ WithoutShift
    \/ Pressed

SpecAlt == InitAlt /\ [][NextAlt]_vars

\* a group on a modifier key against the modifier keys
InitModifierKey ==
    /\ InitCommon
    /\ debug_assertions = TRUE
    /\ shortcuts \in ModifierKeyShortcuts
    /\ keyboard \in ModifierKeySnapshots

NextModifierKey == Pressed

SpecModifierKey == InitModifierKey /\ [][NextModifierKey]_vars

(***************************************************************************)
(* Vocabulary of the properties                                            *)
(***************************************************************************)
BuilderNames ==
    {"with_ctrl", "with_alt", "with_shift", "with_super",
     "without_ctrl", "without_alt", "without_shift", "without_super"}

\* the channel a builder names and the requirement it asks for
ChannelOf(name) ==
    CASE name \in {"with_ctrl", "without_ctrl"} -> "control"
      [] name \in {"with_alt", "without_alt"} -> "alt"
      [] name \in {"with_shift", "without_shift"} -> "shift"
      [] name \in {"with_super", "without_super"} -> "super_key"
RequirementOf(name) ==
    IF name \in {"with_ctrl", "with_alt", "with_shift", "with_super"}
    THEN RequirePressed
    ELSE RequireNotPressed

\* the physical keys of a channel; the channel is down when one of them is
ChannelKeys(c) ==
    CASE c = "control" -> ControlKeys
      [] c = "alt" -> AltKeys
      [] c = "shift" -> ShiftKeys
      [] c = "super_key" -> SuperKeys
ChannelDown(kb, c) == ChannelKeys(c) \cap kb.pressed # {}

\* one channel's requirement against the channel's live state
ChannelHolds(req, down) ==
    \/ req = None
    \/ req = RequirePressed /\ down
    \/ req = RequireNotPressed /\ ~down

\* a modifier policy holds on a snapshot
PolicyHolds(m, kb) == \A c \in Channels : ChannelHolds(m[c], ChannelDown(kb, c))

Alts == shortcuts.shortcuts
Unconstrained(s) == \A c \in Channels : s.modifiers[c] = None

\* the alternatives in another order
Perms(n) == {f \in [1..n -> 1..n] : \A i, j \in 1..n : f[i] = f[j] => i = j}
Permuted(g, f) ==
    [g EXCEPT !.shortcuts = [i \in 1..Len(g.shortcuts) |-> g.shortcuts[f[i]]]]

(***************************************************************************)
(* C1: Shortcuts::pressed is true iff some alternative has its key down    *)
(* (repeats) or just pressed (single fire) and its modifier policy holds   *)
(* on the snapshot; the order of the alternatives does not matter.         *)
(***************************************************************************)
C1_AltMatches(g, kb, i) ==
    /\ IF g.repeats
       THEN g.shortcuts[i].key \in kb.pressed
       ELSE g.shortcuts[i].key \in kb.just_pressed
    /\ PolicyHolds(g.shortcuts[i].modifiers, kb)

C1_PressedIsAnyMatch ==
    called = "pressed" =>
        /\ result = (\E i \in 1..Len(Alts) : C1_AltMatches(shortcuts, keyboard, i))
        /\ \A f \in Perms(Len(Alts)) :
               ShortcutsPressed(Permuted(shortcuts, f), keyboard) = result

\* a single-fire group of two that only its second, constrained alternative fires
C1_Witness ==
    /\ called = "pressed"
    /\ result
    /\ ~shortcuts.repeats
    /\ Len(Alts) = 2
    /\ ~C1_AltMatches(shortcuts, keyboard, 1)
    /\ Alts[2].modifiers.control = RequirePressed

(***************************************************************************)
(* C2: a single-fire group with one unconstrained alternative is active    *)
(* exactly on the tick in which its key went from up to down: not on later *)
(* ticks while the key stays down, and again once it is pressed anew.      *)
(***************************************************************************)
C2_SingleFireGroup ==
    ~shortcuts.repeats /\ Len(Alts) = 1 /\ Unconstrained(Alts[1])

C2_SingleFireOnDownTick ==
    (called = "pressed" /\ C2_SingleFireGroup) =>
        (result <=> age[Alts[1].key] = 0)

\* queried at least one tick after the key went down and still held: inactive
C2_Witness ==
    /\ called = "pressed"
    /\ C2_SingleFireGroup
    /\ ~result
    /\ Alts[1].key \in keyboard.pressed
    /\ age[Alts[1].key] = 1

(***************************************************************************)
(* C3: a repeating group is active whenever the key of an unconstrained    *)
(* alternative is down, however many ticks ago it went down, and inactive  *)
(* when no alternative's key is down.                                      *)
(***************************************************************************)
C3_RepeatingWhileHeld ==
    (called = "pressed" /\ shortcuts.repeats) =>
        /\ \A i \in 1..Len(Alts) :
               (Unconstrained(Alts[i]) /\ Alts[i].key \in keyboard.pressed) => result
        /\ (\A i \in 1..Len(Alts) : Alts[i].key \notin keyboard.pressed) => ~result

\* active on a tick after the one the key went down in, nothing just pressed
C3_Witness ==
    /\ called = "pressed"
    /\ shortcuts.repeats
    /\ result
    /\ keyboard.just_pressed = {}
    /\ \E i \in 1..Len(Alts) :
           /\ Unconstrained(Alts[i])
           /\ Alts[i].key \in keyboard.pressed
           /\ age[Alts[i].key] >= 1

(***************************************************************************)
(* C4: a group without alternatives (default(), single_press(&[]),         *)
(* repeating(&[])) is never active, whatever the snapshot.                 *)
(***************************************************************************)
C4_EmptyNeverPressed ==
    /\ (called = "pressed" /\ Alts = <<>>) => ~result
    /\ \A g \in {ShortcutsDefault, single_press(<<>>), repeating(<<>>)} :
           g.shortcuts = <<>> /\ ~ShortcutsPressed(g, keyboard)

\* the empty repeating group, queried with every key down and just pressed
C4_Witness ==
    /\ called = "pressed"
    /\ shortcuts = repeating(<<>>)
    /\ keyboard = AllDown
    /\ ~result

(***************************************************************************)
(* C5: Modifiers::pressed is the conjunction over the four channels of:    *)
(* true when absent, the live state when RequirePressed, its negation when *)
(* RequireNotPressed.                                                      *)
(***************************************************************************)
C5_Live(c) ==
    CASE c = "control" -> ControlPressed(keyboard)
      [] c = "alt" -> AltPressed(keyboard)
      [] c = "shift" -> ShiftPressed(keyboard)
      [] c = "super_key" -> SuperPressed(keyboard)

C5_PolicyIsConjunction ==
    called = "Modifiers::pressed" =>
        result = (\A c \in Channels : ChannelHolds(Alts[1].modifiers[c], C5_Live(c)))

\* four constrained channels, three of them satisfied, shift violated
C5_Witness ==
    /\ called = "Modifiers::pressed"
    /\ ~result
    /\ \A c \in Channels : Alts[1].modifiers[c] # None
    /\ \A c \in Channels \ {"shift"} : ChannelHolds(Alts[1].modifiers[c], C5_Live(c))
    /\ ~ChannelHolds(Alts[1].modifiers.shift, C5_Live("shift"))

(***************************************************************************)
(* C6: a channel is down iff its left or its right key is down; the policy *)
(* gives the same answer for left only, right only and both.               *)
(***************************************************************************)
C6_LeftRightConflated ==
    called = "Modifiers::pressed" =>
        /\ result = PolicyHolds(Alts[1].modifiers, keyboard)
        /\ \A c \in Channels : \A v \in (SUBSET ChannelKeys(c)) \ {{}} :
               ChannelDown(keyboard, c) =>
                   ModifiersPressed(Alts[1].modifiers,
                       MkInput((keyboard.pressed \ ChannelKeys(c)) \cup v, {})) = result

\* control required, satisfied by the right control key alone
C6_Witness ==
    /\ called = "Modifiers::pressed"
    /\ result
    /\ Alts[1].modifiers.control = RequirePressed
    /\ keyboard.pressed \cap ControlKeys = {"ControlRight"}

(***************************************************************************)
(* C7: a builder that returns changes at most the channel it names of the  *)
(* first alternative: the other alternatives, every key, the number and    *)
(* order of the alternatives, repeats and the other three channels stay.   *)
(***************************************************************************)
C7_BuilderFrame ==
    (called \in BuilderNames /\ ~panicked /\ receiver.shortcuts # <<>>) =>
        /\ shortcuts.repeats = receiver.repeats
        /\ Len(Alts) = Len(receiver.shortcuts)
        /\ \A i \in 1..Len(Alts) : Alts[i].key = receiver.shortcuts[i].key
        /\ \A i \in 2..Len(Alts) : Alts[i].modifiers = receiver.shortcuts[i].modifiers
        /\ \A c \in Channels \ {ChannelOf(called)} :
               Alts[1].modifiers[c] = receiver.shortcuts[1].modifiers[c]

\* without_shift on a group whose second alternative is constrained
C7_Witness ==
    /\ called = "without_shift"
    /\ ~panicked
    /\ Len(receiver.shortcuts) = 2
    /\ receiver.shortcuts[2].modifiers.control = RequirePressed
    /\ receiver.shortcuts[1].modifiers.control = RequireNotPressed
    /\ Alts[1].modifiers.shift = RequireNotPressed
    /\ shortcuts # receiver

(***************************************************************************)
(* C8: with debug assertions, a builder called on a channel of the first   *)
(* alternative that is already set panics and returns no changed value.    *)
(***************************************************************************)
C8_Duplicate ==
    /\ called \in BuilderNames
    /\ receiver.shortcuts # <<>>
    /\ receiver.shortcuts[1].modifiers[ChannelOf(called)] # None

C8_DebugDuplicatePanics ==
    (debug_assertions /\ C8_Duplicate) => (panicked /\ shortcuts = receiver)

\* with_ctrl after without_ctrl, a shift constraint set in between
C8_Witness ==
    /\ debug_assertions
    /\ panicked
    /\ called = "with_ctrl"
    /\ receiver.shortcuts[1].modifiers.control = RequireNotPressed
    /\ receiver.shortcuts[1].modifiers.shift # None

C10_KeyNameOnly ==
    ( /\ called = "to_string"
      /\ Len(Alts) = 1
      /\ \A c \in Channels : Alts[1].modifiers[c] # RequirePressed )
    => label = key_str(Alts[1])

(***************************************************************************)
(* C11: a single shortcut with at least one RequirePressed channel renders *)
(* as the names of exactly its RequirePressed channels in the order Ctrl,  *)
(* Alt, Shift, Super, each followed by " + ", then the key's display name, *)
(* and every order of the builder calls that configure it renders the same *)
(* label.                                                                  *)
(***************************************************************************)
C11_Order == <<"control", "alt", "shift", "super_key">>
C11_Name(c) ==
    CASE c = "control" -> "Ctrl"
      [] c = "alt" -> "Alt"
      [] c = "shift" -> "Shift"
      [] c = "super_key" -> "Super"

RECURSIVE C11_Prefix(_, _)
C11_Prefix(m, cs) ==
    IF cs = <<>> THEN ""
    ELSE (IF m[Head(cs)] = RequirePressed THEN C11_Name(Head(cs)) \o " + " ELSE "")
         \o C11_Prefix(m, Tail(cs))

\* the builder calls of cs made one after the other on g
RECURSIVE C11_Apply(_, _, _)
C11_Apply(g, m, cs) ==
    IF cs = <<>> THEN g
    ELSE C11_Apply(SetModifier(g, Head(cs), m[Head(cs)]), m, Tail(cs))

\* every order of the constrained channels of m
C11_Orders(m) ==
    LET cons == {c \in Channels : m[c] # None}
    IN  {cs \in [1..Cardinality(cons) -> cons] :
            \A i, j \in DOMAIN cs : cs[i] = cs[j] => i = j}

C11_HasRequired(s) == \E c \in Channels : s.modifiers[c] = RequirePressed

C11_FixedOrderLabel ==
    (called = "to_string" /\ Len(Alts) = 1 /\ C11_HasRequired(Alts[1])) =>
        LET s == Alts[1]
            bare == MkShortcuts(<<MkShortcut(s.key, ModifiersDefault)>>,
                                shortcuts.repeats)
        IN  /\ label = C11_Prefix(s.modifiers, C11_Order) \o key_str(s)
            /\ \A cs \in C11_Orders(s.modifiers) :
                   ShortcutsToString(C11_Apply(bare, s.modifiers, cs)) = label

\* with_ctrl(), with_shift() and without_alt() in any order: Ctrl leads
C11_Witness ==
    /\ called = "to_string"
    /\ Len(Alts) = 1
    /\ Alts[1].key = "KeyS"
    /\ Alts[1].modifiers = [ModifiersDefault EXCEPT !.control = RequirePressed,
                                                    !.shift = RequirePressed,
                                                    !.alt = RequireNotPressed]
    /\ label = "Ctrl + Shift + S"

(***************************************************************************)
(* C12: the label of a group is the labels of its alternatives in list     *)
(* order with ", " between neighbours and nothing before the first or      *)
(* after the last; one alternative renders alone, no alternative renders   *)
(* as the empty string, and rendering leaves the group as it was, so a     *)
(* second rendering gives the same string.                                 *)
(***************************************************************************)
\* the labels of the first n alternatives, built from the left
RECURSIVE C12_Joined(_)
C12_Joined(n) ==
    IF n = 0 THEN ""
    ELSE IF n = 1 THEN ShortcutToString(Alts[1])
    ELSE C12_Joined(n - 1) \o ", " \o ShortcutToString(Alts[n])

C12_GroupLabel ==
    called = "to_string" =>
        /\ ~panicked
        /\ label = C12_Joined(Len(Alts))
        /\ Len(Alts) = 0 => label = ""
        /\ Len(Alts) = 1 => label = ShortcutToString(Alts[1])
        /\ ShortcutsToString(shortcuts) = label

C12_Witness ==
    /\ called = "to_string"
    /\ Len(Alts) = 2
    /\ Alts[1].modifiers.control = RequirePressed
    /\ label = "Ctrl + S, ←"

(***************************************************************************)
(* C13: the display name of a key is the table's entry when the key's     *)
(* canonical name is in the table and the canonical name itself when it is *)
(* not; the rendering returns for every name.                              *)
(***************************************************************************)
C13_InTable(k) == \E e \in KEY_DISPLAY_ENTRIES : e[1] = k

C13_KeyNameTotal ==
    (called = "to_string" /\ Len(Alts) = 1 /\ Unconstrained(Alts[1])) =>
        /\ ~panicked
        /\ \A e \in KEY_DISPLAY_ENTRIES : e[1] = Alts[1].key => label = e[2]
        /\ ~C13_InTable(Alts[1].key) => label = Alts[1].key

\* a key without an entry renders as its canonical name
C13_Witness ==
    /\ called = "to_string"
    /\ Len(Alts) = 1
    /\ ~C13_InTable(Alts[1].key)
    /\ label = "Unidentified(Unidentified)"

(***************************************************************************)
(* C14: a group that single_press or repeating built and no builder        *)
(* touched is active whenever the key of one of its alternatives is down   *)
(* (repeating) or just pressed (single-fire), in each of the 256 states of *)
(* the eight modifier keys, and its result is the one it has with every    *)
(* modifier key up.                                                        *)
(***************************************************************************)
C14_ModifiersUp(kb) == MkInput(kb.pressed \ ModifierKeys, kb.just_pressed)

C14_IgnoresModifiers ==
    (called = "pressed" /\ \A i \in 1..Len(Alts) : Unconstrained(Alts[i])) =>
        /\ \A i \in 1..Len(Alts) :
               Alts[i].key \in (IF shortcuts.repeats THEN keyboard.pressed
                                ELSE keyboard.just_pressed) => result
        /\ result = ShortcutsPressed(shortcuts, C14_ModifiersUp(keyboard))

\* all eight modifier keys are down and the single-fire group is active
C14_Witness ==
    /\ called = "pressed"
    /\ shortcuts = single_press(<<"KeyS">>)
    /\ ModifierKeys \subseteq keyboard.pressed
    /\ "KeyS" \in keyboard.just_pressed
    /\ result

(***************************************************************************)
(* C15: single_press(ks) returns a single-fire group and repeating(ks) a   *)
(* repeating one; both hold one alternative per element of ks, in the      *)
(* order of ks, duplicates included, with four absent channels each.  The  *)
(* default group is single-fire and has no alternative.                    *)
(***************************************************************************)
C15_Constructors ==
    /\ called \in {"single_press", "repeating"} =>
        /\ shortcuts.repeats = (called = "repeating")
        /\ Len(Alts) = Len(slice)
        /\ \A i \in 1..Len(slice) :
               Alts[i].key = slice[i] /\ Unconstrained(Alts[i])
    /\ called = "default" => (~shortcuts.repeats /\ Alts = <<>>)

\* the same key twice gives two alternatives
C15_Witness ==
    /\ called = "repeating"
    /\ slice = <<"KeyS", "KeyS">>
    /\ Len(Alts) = 2
    /\ shortcuts.repeats

(***************************************************************************)
(* C16: the result of pressed() is a function of the group and of the      *)
(* snapshot's down set and just-pressed set alone, so histories of press,  *)
(* release, clear and earlier queries that end in the same two sets give   *)
(* the same result; and a query leaves the snapshot and the group as they  *)
(* were.                                                                   *)
(***************************************************************************)
C16_OfSnapshot(g, down, just) ==
    \E i \in 1..Len(g.shortcuts) :
        /\ g.shortcuts[i].key \in (IF g.repeats THEN down ELSE just)
        /\ PolicyHolds(g.shortcuts[i].modifiers, MkInput(down, just))

C16_Determined ==
    called = "pressed" =>
        result = C16_OfSnapshot(shortcuts, keyboard.pressed, keyboard.just_pressed)

C16_QueryFrame ==
    called' = "pressed" => (keyboard' = keyboard /\ shortcuts' = shortcuts)

C16_Pure == []C16_Determined /\ [][C16_QueryFrame]_vars

\* a query on a later tick than the key's down-transition, after a release
\* and another press of a second key
C16_Witness ==
    /\ called = "pressed"
    /\ shortcuts = repeating(<<"KeyA", "ArrowLeft">>)
    /\ keyboard.pressed = {"KeyA", "ArrowLeft"}
    /\ keyboard.just_pressed = {"ArrowLeft"}
    /\ age["KeyA"] = MaxTicks
    /\ age["ArrowLeft"] = 0
    /\ result

(***************************************************************************)
(* C17: in a group of two or more alternatives that builder calls have     *)
(* configured, each alternative after the first activates the group when   *)
(* its key is down (repeating) or just pressed (single-fire), whatever the *)
(* modifier keys and the first alternative's key are doing.                *)
(***************************************************************************)
C17_Configured == \E c \in Channels : Alts[1].modifiers[c] # None

C17_LaterAlternativesFree ==
    (called = "pressed" /\ Len(Alts) >= 2 /\ C17_Configured) =>
        \A i \in 2..Len(Alts) :
            Alts[i].key \in (IF shortcuts.repeats THEN keyboard.pressed
                             ELSE keyboard.just_pressed) => result

\* repeating([KeyS, ArrowLeft]).with_ctrl(), ArrowLeft down, Control up
C17_Witness ==
    /\ called = "pressed"
    /\ shortcuts = with_ctrl(repeating(<<"KeyS", "ArrowLeft">>))
    /\ keyboard.pressed = {"ArrowLeft"}
    /\ result

(***************************************************************************)
(* C18: a single-fire group whose only alternative requires Control is     *)
(* active exactly in the tick of the key's down-transition and only while  *)
(* Control is down in that tick.  A key that went down with Control up and *)
(* is held keeps the group inactive on that tick and on every later tick,  *)
(* also after Control goes down, until the key is released and goes down   *)
(* again in a tick in which Control is down.                               *)
(***************************************************************************)
C18_Group ==
    /\ ~shortcuts.repeats
    /\ Len(Alts) = 1
    /\ Alts[1].modifiers = [ModifiersDefault EXCEPT !.control = RequirePressed]

C18_PolicyAtDownTick ==
    (called = "pressed" /\ C18_Group) =>
        /\ result = (age[Alts[1].key] = 0 /\ ChannelDown(keyboard, "control"))
        /\ (Alts[1].key \in keyboard.pressed /\ age[Alts[1].key] >= 1) => ~result

\* the key is held since an earlier tick, Control went down in this one
C18_Witness ==
    /\ called = "pressed"
    /\ C18_Group
    /\ Alts[1].key \in keyboard.pressed
    /\ age[Alts[1].key] >= 1
    /\ "ControlLeft" \in keyboard.pressed
    /\ age["ControlLeft"] = 0
    /\ ~result

(***************************************************************************)
(* C19: a group whose only alternative has a modifier key as its key and   *)
(* forbids that key's own channel is inactive on every snapshot when it    *)
(* repeats, and when it is single-fire on every snapshot whose just-       *)
(* pressed keys are all down.                                              *)
(***************************************************************************)
C19_ForbidsOwnKey ==
    /\ Len(Alts) = 1
    /\ \E c \in Channels :
           /\ Alts[1].key \in ChannelKeys(c)
           /\ Alts[1].modifiers[c] = RequireNotPressed

C19_NeverActive ==
    (called = "pressed" /\ C19_ForbidsOwnKey) =>
        /\ shortcuts.repeats => ~result
        /\ (~shortcuts.repeats /\ keyboard.just_pressed \subseteq keyboard.pressed)
               => ~result

\* single_press([ControlRight]).without_ctrl(), ControlRight just pressed
C19_Witness ==
    /\ called = "pressed"
    /\ shortcuts = without_ctrl(single_press(<<"ControlRight">>))
    /\ keyboard.just_pressed = {"ControlRight"}
    /\ keyboard.pressed = {"ControlRight"}
    /\ ~result
====
